---- MODULE Spec2Model ----
(***************************************************************************)
(* Model of src/python/bfs.py: maze generation, layered breadth-first      *)
(* search, path reconstruction and the random walker of                    *)
(* BFSVsRandomWalkScene.                                                    *)
(*                                                                         *)
(* A cell is a pair <<x, y>> of 0-based coordinates.  The maze is the      *)
(* Python list of rows: maze[y + 1][x + 1] here is maze[y][x] there.       *)
(* random.random() is a draw r from 0 .. RandMax - 1 standing for the      *)
(* float r / RandMax of [0, 1); a wall probability is the integer p        *)
(* standing for p / RandMax.  Python's None is the empty tuple.            *)
(***************************************************************************)
EXTENDS Integers, Sequences, FiniteSets, TLC

\* Largest grid size n the model generates.
MaxN == 3
\* Resolution of the random source: draws are 0 .. RandMax - 1.
RandMax == 2
\* Largest value of the walker's step counter the model follows.
MaxSteps == 3
\* Frames (updater calls of equal dt) that make up one step_interval.
StepFrames == 2

None == << >>

\* Sizes and probabilities handed to _generate_maze, valid and invalid.
SizeArgs == (0 - 1) .. MaxN
ProbArgs == (0 - 1) .. (RandMax + 1)

VARIABLES
    pc,             \* position of the caller in the computation
    n_arg,          \* argument n of _generate_maze
    wall_prob,      \* argument wall_prob of _generate_maze
    maze,           \* the grid
    start, goal,    \* arguments of _bfs_layers and _reconstruct_path
    bfs,            \* locals of _bfs_layers: q, visited, parent, layers, layer, left
    cur, path,      \* locals of _reconstruct_path
    rw_state,       \* the walker: pos, last_move_time
    rw_steps,       \* ValueTracker rw_steps
    random_running, \* ValueTracker random_running
    bfs_steps,      \* ValueTracker bfs_steps
    layer_index     \* index of the playback loop of construct

vars == <<pc, n_arg, wall_prob, maze, start, goal, bfs, cur, path,
          rw_state, rw_steps, random_running, bfs_steps, layer_index>>

coreVars == <<n_arg, wall_prob, maze, start, goal, bfs, cur, path>>
sceneVars == <<rw_state, rw_steps, random_running, bfs_steps, layer_index>>

----------------------------------------------------------------------------
(* Helpers *)

RECURSIVE Reverse(_)
Reverse(s) == IF s = << >> THEN << >> ELSE Append(Reverse(Tail(s)), Head(s))

Range(s) == {s[i] : i \in 1 .. Len(s)}

Cells(n) == (0 .. n - 1) \X (0 .. n - 1)

InBounds(c, m) ==
    /\ 0 <= c[1] /\ c[1] < Len(m)
    /\ 0 <= c[2] /\ c[2] < Len(m)

Passable(c, m) == InBounds(c, m) /\ m[c[2] + 1][c[1] + 1]

----------------------------------------------------------------------------
(* _generate_maze *)

\* random.random() > wall_prob, for one draw
Free(draw, p) == draw > p

generate_maze(n, p, draws) ==
    [j \in 1 .. n |-> [i \in 1 .. n |-> Free(draws[j][i], p)]]

\* maze[c[1]][c[0]] = True
ForcePassable(m, c) == [m EXCEPT ![c[2] + 1][c[1] + 1] = TRUE]

----------------------------------------------------------------------------
(* _neighbors *)

Dirs == << <<1, 0>>, <<0 - 1, 0>>, <<0, 1>>, <<0, 0 - 1>> >>

\* Variant: the last direction (0, -1) is never tried.
neighbors_NoUp(node, m) ==
    LET cand == [i \in 1 .. 3 |-> <<node[1] + Dirs[i][1], node[2] + Dirs[i][2]>>]
        open(c) == Passable(c, m)
    IN  SelectSeq(cand, open)

\* Variant: the test maze[ny][nx] is left out of the condition.
neighbors_NoWallCheck(node, m) ==
    LET cand == [i \in 1 .. 4 |-> <<node[1] + Dirs[i][1], node[2] + Dirs[i][2]>>]
        inside(c) == InBounds(c, m)
    IN  SelectSeq(cand, inside)

neighbors(node, m) ==
    LET cand == [i \in 1 .. 4 |-> <<node[1] + Dirs[i][1], node[2] + Dirs[i][2]>>]
        open(c) == Passable(c, m)
    IN  SelectSeq(cand, open)

----------------------------------------------------------------------------
(* _bfs_layers *)

BfsInit(s) ==
    [q |-> <<s>>, visited |-> {s}, parent |-> (s :> None),
     layers |-> << >>, layer |-> << >>, left |-> 0, at |-> "while"]

\* Variant: parent[nb] = node is written outside the test nb not in visited.
Discover_Overwrite(st, nb, node) ==
    IF nb \in st.visited
    THEN [st EXCEPT !.parent = (nb :> node) @@ @]
    ELSE [st EXCEPT !.visited = @ \cup {nb},
                    !.parent = (nb :> node) @@ @,
                    !.q = Append(@, nb)]

\* if nb not in visited: visited.add(nb); parent[nb] = node; q.append(nb)
Discover(st, nb, node) ==
    IF nb \in st.visited
    THEN st
    ELSE [st EXCEPT !.visited = @ \cup {nb},
                    !.parent = (nb :> node) @@ @,
                    !.q = Append(@, nb)]

RECURSIVE DiscoverAll(_, _, _)
DiscoverAll(st, nbs, node) ==
    IF nbs = << >> THEN st
    ELSE DiscoverAll(Discover(st, Head(nbs), node), Tail(nbs), node)

\* Variant: the loop is never left when the queue is empty.
WhileStep_NoReturn(st) ==
    IF st.q # << >>
    THEN [st EXCEPT !.left = Len(st.q), !.layer = << >>, !.at = "for"]
    ELSE st

\* while q: layer_size = len(q); layer = []      /  return layers, parent
WhileStep(st) ==
    IF st.q # << >>
    THEN [st EXCEPT !.left = Len(st.q), !.layer = << >>, !.at = "for"]
    ELSE [st EXCEPT !.at = "returned"]

\* Variant: q.pop() in place of q.popleft().
ForStep_Lifo(st, m, g) ==
    LET node == st.q[Len(st.q)]
        popped == [st EXCEPT !.q = SubSeq(@, 1, Len(@) - 1), !.layer = Append(@, node)]
    IN  IF node = g
        THEN [popped EXCEPT !.layers = Append(@, popped.layer), !.at = "returned"]
        ELSE LET seen == DiscoverAll(popped, neighbors(node, m), node)
             IN  IF st.left = 1
                 THEN [seen EXCEPT !.left = 0,
                                   !.layers = Append(@, seen.layer),
                                   !.at = "while"]
                 ELSE [seen EXCEPT !.left = @ - 1]

\* one iteration of the for loop, and layers.append(layer) after the last one
ForStep(st, m, g) ==
    LET node == Head(st.q)
        popped == [st EXCEPT !.q = Tail(@), !.layer = Append(@, node)]
    IN  IF node = g
        THEN [popped EXCEPT !.layers = Append(@, popped.layer), !.at = "returned"]
        ELSE LET seen == DiscoverAll(popped, neighbors(node, m), node)
             IN  IF st.left = 1
                 THEN [seen EXCEPT !.left = 0,
                                   !.layers = Append(@, seen.layer),
                                   !.at = "while"]
                 ELSE [seen EXCEPT !.left = @ - 1]

BfsStep(st, m, g) ==
    IF st.at = "while" THEN WhileStep(st) ELSE ForStep(st, m, g)

RECURSIVE BfsRun(_, _, _)
BfsRun(st, m, g) ==
    IF st.at = "returned" THEN st ELSE BfsRun(BfsStep(st, m, g), m, g)

\* the whole call: layers, parent = self._bfs_layers(maze, start, goal)
bfs_layers(m, s, g) == BfsRun(BfsInit(s), m, g)

----------------------------------------------------------------------------
(* _reconstruct_path *)

\* parent.get(cur, None)
ParentGet(parent, c) == IF c \in DOMAIN parent THEN parent[c] ELSE None

RECURSIVE WalkBack(_, _, _)
WalkBack(parent, c, acc) ==
    IF c = None THEN acc
    ELSE WalkBack(parent, ParentGet(parent, c), Append(acc, c))

reconstruct_path(parent, s, g) ==
    IF g \notin DOMAIN parent THEN << >>
    ELSE Reverse(WalkBack(parent, g, << >>))

----------------------------------------------------------------------------
(* The computational core, one call after the other *)

NoBfs == [q |-> << >>, visited |-> {}, parent |-> << >>,
          layers |-> << >>, layer |-> << >>, left |-> 0, at |-> "idle"]

NoWalker == [pos |-> None, last_move_time |-> 0]

Init ==
    /\ pc = "init"
    /\ n_arg = 0 /\ wall_prob = 0
    /\ maze = << >>
    /\ start = None /\ goal = None
    /\ bfs = NoBfs
    /\ cur = None /\ path = << >>
    /\ rw_state = NoWalker
    /\ rw_steps = 0 /\ random_running = 1 /\ bfs_steps = 0 /\ layer_index = 0

\* maze = self._generate_maze(n, wall_prob, seed)
GenerateMaze ==
    /\ pc = "init"
    /\ \E n \in SizeArgs, p \in ProbArgs :
         \E draws \in [1 .. n -> [1 .. n -> 0 .. RandMax - 1]] :
            /\ n_arg' = n
            /\ wall_prob' = p
            /\ maze' = generate_maze(n, p, draws)
    /\ pc' = "generated"
    /\ UNCHANGED <<start, goal, bfs, cur, path>>
    /\ UNCHANGED sceneVars

ValidCell(c, m) == Passable(c, m)

\* The (start, goal) pairs the model calls _bfs_layers with: every pair of
\* passable cells, and pairs in which one cell is on a wall or out of bounds
\* while the other is the corner construct uses.
BfsArgs(m) ==
    LET n == Len(m)
        all == ((0 - 1) .. n) \X ((0 - 1) .. n)
        s0 == <<0, 0>>
        g0 == <<n - 1, n - 1>>
    IN  {sg \in all \X all :
            \/ ValidCell(sg[1], m) /\ ValidCell(sg[2], m)
            \/ sg[1] = s0 /\ ~ValidCell(sg[2], m)
            \/ sg[2] = g0 /\ ~ValidCell(sg[1], m)}

\* entry of _bfs_layers(maze, start, goal)
CallBfs ==
    /\ pc = "generated"
    /\ \E sg \in BfsArgs(maze) :
         /\ start' = sg[1]
         /\ goal' = sg[2]
         /\ bfs' = BfsInit(sg[1])
    /\ pc' = "bfs"
    /\ UNCHANGED <<n_arg, wall_prob, maze, cur, path>>
    /\ UNCHANGED sceneVars

\* one step of the loops of _bfs_layers
BfsLoop ==
    /\ pc = "bfs"
    /\ bfs.at # "returned"
    /\ bfs' = BfsStep(bfs, maze, goal)
    /\ UNCHANGED <<pc, n_arg, wall_prob, maze, start, goal, cur, path>>
    /\ UNCHANGED sceneVars

\* Variant: the test goal not in parent is missing.
CallReconstruct_NoCheck ==
    /\ pc = "bfs"
    /\ bfs.at = "returned"
    /\ pc' = "walkback"
    /\ path' = << >>
    /\ cur' = goal
    /\ UNCHANGED <<n_arg, wall_prob, maze, start, goal, bfs>>
    /\ UNCHANGED sceneVars

\* entry of _reconstruct_path(parent, start, goal)
CallReconstruct ==
    /\ pc = "bfs"
    /\ bfs.at = "returned"
    /\ IF goal \notin DOMAIN bfs.parent
       THEN /\ pc' = "done"
            /\ path' = << >>
            /\ cur' = None
       ELSE /\ pc' = "walkback"
            /\ path' = << >>
            /\ cur' = goal
    /\ UNCHANGED <<n_arg, wall_prob, maze, start, goal, bfs>>
    /\ UNCHANGED sceneVars

\* Variant: the loop stops at the cell whose parent is None and drops it.
PathLoop_SkipStart ==
    /\ pc = "walkback"
    /\ cur # None
    /\ path' = IF ParentGet(bfs.parent, cur) = None THEN path ELSE Append(path, cur)
    /\ cur' = ParentGet(bfs.parent, cur)
    /\ UNCHANGED <<pc, n_arg, wall_prob, maze, start, goal, bfs>>
    /\ UNCHANGED sceneVars

\* while cur is not None: path.append(cur); cur = parent.get(cur, None)
PathLoop ==
    /\ pc = "walkback"
    /\ cur # None
    /\ path' = Append(path, cur)
    /\ cur' = ParentGet(bfs.parent, cur)
    /\ UNCHANGED <<pc, n_arg, wall_prob, maze, start, goal, bfs>>
    /\ UNCHANGED sceneVars

\* Variant: path.reverse() is missing.
PathReturn_NoReverse ==
    /\ pc = "walkback"
    /\ cur = None
    /\ path' = path
    /\ pc' = "done"
    /\ UNCHANGED <<n_arg, wall_prob, maze, start, goal, bfs, cur>>
    /\ UNCHANGED sceneVars

\* path.reverse(); return path
PathReturn ==
    /\ pc = "walkback"
    /\ cur = None
    /\ path' = Reverse(path)
    /\ pc' = "done"
    /\ UNCHANGED <<n_arg, wall_prob, maze, start, goal, bfs, cur>>
    /\ UNCHANGED sceneVars

Next ==
    \/ GenerateMaze
    \/ CallBfs
    \/ BfsLoop
    \/ CallReconstruct
    \/ PathLoop
    \/ PathReturn

Spec == Init /\ [][Next]_vars

\* The interpreter runs a called function to its end: every enabled step of
\* the single thread is eventually taken.
FairSpec == Spec /\ WF_vars(Next)

----------------------------------------------------------------------------
(* construct: the walker's updater runs on every rendered frame while the  *)
(* BFS layers are played one after the other.  Frames are rendered inside  *)
(* every self.play and self.wait, so a frame can come at every position    *)
(* of construct after the updater is added.                                *)

SceneAt == {"entrance", "loop", "flash", "stopped", "outro"}

\* construct up to rw_dot.add_updater(rw_updater): the maze with start and
\* goal forced passable, the trackers, the walker on start, the BFS done.
SceneInit ==
    \E n \in 1 .. MaxN, p \in 0 .. RandMax :
      \E draws \in [1 .. n -> [1 .. n -> 0 .. RandMax - 1]] :
        LET s == <<0, 0>>
            g == <<n - 1, n - 1>>
            m == ForcePassable(ForcePassable(generate_maze(n, p, draws), s), g)
        IN  /\ pc = "entrance"
            /\ n_arg = n /\ wall_prob = p
            /\ maze = m
            /\ start = s /\ goal = g
            /\ bfs = bfs_layers(m, s, g)
            /\ cur = None /\ path = << >>
            /\ rw_state = [pos |-> s, last_move_time |-> 0]
            /\ rw_steps = 0 /\ random_running = 1
            /\ bfs_steps = 0 /\ layer_index = 0

\* Variant: the updater does not test random_running.
Frame_IgnoresFlag ==
    /\ pc \in SceneAt
    /\ rw_steps < MaxSteps
    /\ IF rw_state.last_move_time + 1 < StepFrames
       THEN /\ rw_state' = [rw_state EXCEPT !.last_move_time = @ + 1]
            /\ UNCHANGED rw_steps
       ELSE LET nbs == neighbors(rw_state.pos, maze)
            IN  IF nbs = << >>
                THEN /\ rw_state' = [rw_state EXCEPT !.last_move_time = 0]
                     /\ UNCHANGED rw_steps
                ELSE \E i \in 1 .. Len(nbs) :
                        /\ rw_state' = [pos |-> nbs[i], last_move_time |-> 0]
                        /\ rw_steps' = rw_steps + 1
    /\ UNCHANGED <<pc, random_running, bfs_steps, layer_index>>
    /\ UNCHANGED coreVars

\* rw_updater(mobj, dt), one call per rendered frame
Frame ==
    /\ pc \in SceneAt
    /\ rw_steps < MaxSteps
    /\ IF random_running < 1
       THEN UNCHANGED <<rw_state, rw_steps>>
       ELSE IF rw_state.last_move_time + 1 < StepFrames
       THEN /\ rw_state' = [rw_state EXCEPT !.last_move_time = @ + 1]
            /\ UNCHANGED rw_steps
       ELSE LET nbs == neighbors(rw_state.pos, maze)
            IN  IF nbs = << >>
                THEN /\ rw_state' = [rw_state EXCEPT !.last_move_time = 0]
                     /\ UNCHANGED rw_steps
                ELSE \E i \in 1 .. Len(nbs) :
                        /\ rw_state' = [pos |-> nbs[i], last_move_time |-> 0]
                        /\ rw_steps' = rw_steps + 1
    /\ UNCHANGED <<pc, random_running, bfs_steps, layer_index>>
    /\ UNCHANGED coreVars

\* the entrance animation and the wait after it
EntranceDone ==
    /\ pc = "entrance"
    /\ pc' = "loop"
    /\ UNCHANGED sceneVars
    /\ UNCHANGED coreVars

\* Inside the loop, pc = "loop" with bfs_steps = layer_index is the position
\* before bfs_steps.increment_value(1) of iteration layer_index (the frames of
\* line 123 are rendered there); bfs_steps = layer_index + 1 is the position
\* after it, where _animate_queue_push renders its frames.  The test
\* goal in layer changes no state: for the layer that holds goal the position
\* after the increment is "flash", up to random_running.set_value(0).

\* the layer played is the one that holds goal
GoalInLayer == goal \in Range(bfs.layers[layer_index + 1])

\* bfs_steps.increment_value(1) of the iteration layer_index
PlayLayer ==
    /\ pc = "loop"
    /\ bfs_steps = layer_index
    /\ bfs_steps' = bfs_steps + 1
    /\ pc' = IF GoalInLayer THEN "flash" ELSE "loop"
    /\ UNCHANGED <<rw_state, rw_steps, random_running, layer_index>>
    /\ UNCHANGED coreVars

\* after _animate_queue_push: goal in layer is false and enumerate gives the
\* next layer
NextLayer ==
    /\ pc = "loop"
    /\ bfs_steps = layer_index + 1
    /\ layer_index + 1 < Len(bfs.layers)
    /\ layer_index' = layer_index + 1
    /\ UNCHANGED <<pc, rw_state, rw_steps, random_running, bfs_steps>>
    /\ UNCHANGED coreVars

\* self.play(Flash(...)); random_running.set_value(0)
StopWalker ==
    /\ pc = "flash"
    /\ random_running' = 0
    /\ pc' = "stopped"
    /\ UNCHANGED <<rw_state, rw_steps, bfs_steps, layer_index>>
    /\ UNCHANGED coreVars

\* the end of the loop (break, or the layers exhausted after the last
\* _animate_queue_push, layer_index staying on the last layer) and
\* path = self._reconstruct_path(parent, start, goal)
ShowPath ==
    /\ \/ pc = "stopped"
       \/ /\ pc = "loop"
          /\ bfs_steps = layer_index + 1
          /\ layer_index + 1 = Len(bfs.layers)
    /\ path' = reconstruct_path(bfs.parent, start, goal)
    /\ pc' = "outro"
    /\ UNCHANGED <<n_arg, wall_prob, maze, start, goal, bfs, cur>>
    /\ UNCHANGED sceneVars

SceneNext ==
    \/ Frame
    \/ EntranceDone
    \/ PlayLayer
    \/ NextLayer
    \/ StopWalker
    \/ ShowPath

SceneSpec == SceneInit /\ [][SceneNext]_vars

----------------------------------------------------------------------------
(* Reference notions the properties are stated with: adjacency, distance   *)
(* and connected component by exhaustive search, independent of the code.  *)

Abs(i) == IF i < 0 THEN 0 - i ELSE i

Adjacent(c, d) == Abs(c[1] - d[1]) + Abs(c[2] - d[2]) = 1

\* b and the passable cells one 4-directional step away from b
Expand(m, b) ==
    b \cup UNION {IF Passable(c, m) /\ \E d \in b : Adjacent(c, d) THEN {c} ELSE {} :
                    c \in Cells(Len(m))}

RECURSIVE Grow(_, _, _)
Grow(m, b, k) == IF k = 0 THEN b ELSE Grow(m, Expand(m, b), k - 1)

\* cells reachable from s in at most k passable 4-directional steps
Within(m, s, k) == Grow(m, {s}, k)

Component(m, s) == Within(m, s, Len(m) * Len(m))

\* cells at distance exactly k from s
Sphere(m, s, k) ==
    IF k = 0 THEN {s} ELSE Within(m, s, k) \ Within(m, s, k - 1)

Dist(m, s, g) ==
    CHOOSE k \in 0 .. Len(m) * Len(m) : g \in Sphere(m, s, k)

NoRepeat(s) == \A i, j \in 1 .. Len(s) : s[i] = s[j] => i = j

AllPassable(m) == \A c \in Cells(Len(m)) : Passable(c, m)

Returned == pc \in {"bfs", "walkback", "done"} /\ bfs.at = "returned"

ValidStart == Passable(start, maze)
ValidGoal == Passable(goal, maze)
Reachable == ValidStart /\ ValidGoal /\ goal \in Component(maze, start)

\* 0-based indices of the returned layers that contain c
LayersWith(c) == {k \in 0 .. Len(bfs.layers) - 1 : c \in Range(bfs.layers[k + 1])}

BfsAt == {"bfs", "walkback", "done"}

RECURSIVE Flatten(_)
Flatten(ss) == IF ss = << >> THEN << >> ELSE Head(ss) \o Flatten(Tail(ss))

\* the cells dequeued so far, in dequeue order
Dequeued(st) == Flatten(st.layers) \o (IF st.at = "for" THEN st.layer ELSE << >>)

\* the cells enqueued so far, in enqueue order
Enqueued(st) == Dequeued(st) \o st.q

IndexOf(s, e) == CHOOSE i \in 1 .. Len(s) : s[i] = e

IsPrefix(s, t) == Len(s) <= Len(t) /\ \A i \in 1 .. Len(s) : s[i] = t[i]

----------------------------------------------------------------------------
(* C1 *)

\* C1: when start and goal are passable and goal is reachable from start,
\* the one returned layer that contains goal has the shortest-path distance
\* from start to goal as its index; on the 3x3 all-passable grid from (0,0)
\* to (2,2) that index is 4.
C1_LayerIndexIsDistance ==
    (Returned /\ Reachable) =>
        /\ LayersWith(goal) = {Dist(maze, start, goal)}
        /\ (Len(maze) = 3 /\ AllPassable(maze) /\ start = <<0, 0>> /\ goal = <<2, 2>>)
              => LayersWith(goal) = {4}

C1_Witness ==
    /\ Returned /\ Reachable
    /\ Len(maze) = 3 /\ AllPassable(maze)
    /\ start = <<0, 0>> /\ goal = <<2, 2>>
    /\ LayersWith(goal) = {4}

----------------------------------------------------------------------------
(* C2 *)

\* C2: a non-empty path returned by _reconstruct_path on the ParentMap of
\* _bfs_layers (start passable) begins with start, ends with goal, repeats no
\* cell, and each consecutive pair is a 4-directional move between in-bounds
\* passable cells.
C2_PathIsLegal ==
    (pc = "done" /\ ValidStart /\ path # << >>) =>
        /\ path[1] = start
        /\ path[Len(path)] = goal
        /\ NoRepeat(path)
        /\ \A i \in 1 .. Len(path) : Passable(path[i], maze)
        /\ \A i \in 1 .. Len(path) - 1 : Adjacent(path[i], path[i + 1])

C2_Witness ==
    /\ pc = "done" /\ ValidStart
    /\ Len(path) >= 4
    /\ ~AllPassable(maze)
    /\ path[1] = start /\ path[Len(path)] = goal

----------------------------------------------------------------------------
(* C3 *)

\* C3: when goal is reachable from start, the reconstructed path has as many
\* edges as the index of the layer in which _bfs_layers found goal, which is
\* the shortest-path distance.
C3_PathIsShortest ==
    (pc = "done" /\ Reachable) =>
        /\ path # << >>
        /\ LayersWith(goal) = {Len(path) - 1}
        /\ Len(path) - 1 = Dist(maze, start, goal)

\* a run in which walls force a detour: the shortest path is longer than
\* the Manhattan distance
C3_Witness ==
    /\ pc = "done" /\ Reachable
    /\ LayersWith(goal) = {Len(path) - 1}
    /\ Len(path) - 1 > Abs(start[1] - goal[1]) + Abs(start[2] - goal[2])

----------------------------------------------------------------------------
(* C4 *)

\* C4: when goal is not reachable from a passable start, goal is never a key
\* of the ParentMap, the returned layers hold exactly the cells of start's
\* connected component, and _reconstruct_path returns the empty sequence.
C4_UnreachableGoal ==
    (pc \in BfsAt /\ ValidStart /\ goal \notin Component(maze, start)) =>
        /\ goal \notin DOMAIN bfs.parent
        /\ Returned => Range(Flatten(bfs.layers)) = Component(maze, start)
        /\ pc = "done" => path = << >>

C4_Witness ==
    /\ pc = "done" /\ ValidStart /\ ValidGoal
    /\ goal \notin Component(maze, start)
    /\ Cardinality(Component(maze, start)) >= 3
    /\ Range(Flatten(bfs.layers)) = Component(maze, start)
    /\ path = << >>

----------------------------------------------------------------------------
(* C6 *)

InvalidMazeArgs == n_arg <= 0 \/ wall_prob < 0 \/ wall_prob > RandMax

InvalidBfsArgs == ~ValidStart \/ ~ValidGoal

\* C6: _generate_maze with a non-positive n or a wall probability outside
\* [0, 1], and _bfs_layers with a start or goal out of bounds or on a wall,
\* end in an error and return no grid, layers or ParentMap.
C6_InvalidInputsFail ==
    /\ (pc # "init" /\ InvalidMazeArgs) => pc = "error"
    /\ (pc \in BfsAt /\ InvalidBfsArgs) => pc = "error"

----------------------------------------------------------------------------
(* C7 *)

\* C7 as claimed: layer 0 is {start}, every returned layer k, the one with
\* goal included, is exactly the set of cells at distance k from start, and
\* no layer follows the one containing goal.
C7_EveryLayerIsWholeSphere ==
    (Returned /\ ValidStart /\ ValidGoal) =>
        /\ bfs.layers[1] = <<start>>
        /\ \A k \in 0 .. Len(bfs.layers) - 1 :
              /\ Range(bfs.layers[k + 1]) = Sphere(maze, start, k)
              /\ goal \in Range(bfs.layers[k + 1]) => k = Len(bfs.layers) - 1

\* C7 amended: layer 0 is {start}; every returned layer k that does not
\* contain goal is exactly the set of cells at distance k from start; the
\* layer in which goal is found is the last one returned and holds only
\* cells at that distance, those dequeued up to and including goal.
C7_LayersAreSpheresUpToGoal ==
    (Returned /\ ValidStart /\ ValidGoal) =>
        /\ bfs.layers[1] = <<start>>
        /\ \A k \in 0 .. Len(bfs.layers) - 1 :
              LET layer == bfs.layers[k + 1]
              IN  IF goal \in Range(layer)
                  THEN /\ k = Len(bfs.layers) - 1
                       /\ Range(layer) \subseteq Sphere(maze, start, k)
                       /\ layer[Len(layer)] = goal
                  ELSE Range(layer) = Sphere(maze, start, k)

\* a run whose last layer stops at goal and leaves out cells at that distance
C7_Witness ==
    /\ Returned /\ ValidStart /\ ValidGoal
    /\ Len(bfs.layers) >= 3
    /\ LET k == Len(bfs.layers) - 1
       IN  /\ goal \in Range(bfs.layers[k + 1])
           /\ Range(bfs.layers[k + 1]) # Sphere(maze, start, k)
           /\ Range(bfs.layers[k]) = Sphere(maze, start, k - 1)

----------------------------------------------------------------------------
(* C8 *)

C8_State(st) ==
    /\ st.visited = Range(Enqueued(st))
    /\ NoRepeat(Enqueued(st))
    /\ DOMAIN st.parent = st.visited
    /\ st.parent[start] = None
    /\ \A c \in st.visited \ {start} :
          LET p == st.parent[c]
              deq == Dequeued(st)
          IN  /\ p \in Range(deq)
              /\ Adjacent(p, c)
              /\ ValidStart => Passable(p, maze)
              /\ \A d \in Range(deq) :
                    Adjacent(d, c) => IndexOf(deq, p) <= IndexOf(deq, d)

C8_Step ==
    pc' \in BfsAt =>
        /\ C8_State(bfs)'
        /\ pc \in BfsAt =>
              /\ IsPrefix(Enqueued(bfs), Enqueued(bfs'))
              /\ \A c \in DOMAIN bfs.parent :
                    c \in DOMAIN bfs'.parent /\ bfs'.parent[c] = bfs.parent[c]

\* C8: throughout a _bfs_layers run the visited set is exactly the set of
\* cells enqueued so far, no cell is enqueued twice or appears twice in the
\* layers, a ParentMap entry is never overwritten, and the parent of a cell
\* is the first dequeued cell adjacent to it, a passable neighbor.
C8_VisitedOnEnqueue == [][C8_Step]_vars

\* a cell is waiting in the queue and a second dequeued cell, not its parent,
\* is adjacent to it: the second discovery was refused
C8_Witness ==
    /\ pc = "bfs" /\ bfs.at = "for" /\ ValidStart /\ ValidGoal
    /\ \E c \in Range(bfs.q) : \E d \in Range(Dequeued(bfs)) :
          /\ d # bfs.parent[c]
          /\ Adjacent(d, c)
          /\ bfs.parent[c] \in Range(bfs.layer)
          /\ d \in Range(bfs.layer)

----------------------------------------------------------------------------
(* C10 *)

\* following parent from c reaches None in at most fuel steps
RECURSIVE ChainEnds(_, _, _)
ChainEnds(parent, c, fuel) ==
    IF c = None THEN TRUE
    ELSE IF fuel = 0 THEN FALSE
    ELSE ChainEnds(parent, ParentGet(parent, c), fuel - 1)

ChainIsAcyclic ==
    (Returned /\ goal \in DOMAIN bfs.parent) =>
        ChainEnds(bfs.parent, goal, Cardinality(DOMAIN bfs.parent))

\* C10: every call of _bfs_layers returns, every call of _reconstruct_path
\* on the ParentMap it returned returns, and the parent chain from goal
\* reaches the None of start without a cycle.
C10_Terminates ==
    /\ (pc = "bfs") ~> Returned
    /\ (pc = "walkback") ~> (pc = "done")
    /\ []ChainIsAcyclic

\* a finished run on a grid with a cycle of passable cells (a 2x2 block)
C10_Witness ==
    /\ pc = "done" /\ ValidStart /\ ValidGoal
    /\ Len(path) >= 3
    /\ \E c \in Cells(Len(maze)) :
          /\ Passable(c, maze) /\ Passable(<<c[1] + 1, c[2]>>, maze)
          /\ Passable(<<c[1], c[2] + 1>>, maze)
          /\ Passable(<<c[1] + 1, c[2] + 1>>, maze)
          /\ {c, <<c[1] + 1, c[2] + 1>>} \subseteq bfs.visited

----------------------------------------------------------------------------
(* C5 *)

OpenNeighbors(c, m) == {d \in Cells(Len(m)) : Passable(d, m) /\ Adjacent(c, d)}

\* the frame is one in which the updater reaches the move: the walker runs
\* and the step interval has elapsed
StepDue ==
    /\ random_running = 1
    /\ rw_state.last_move_time = StepFrames - 1
    /\ rw_state'.last_move_time = 0

C5_Step ==
    LET nbs == OpenNeighbors(rw_state.pos, maze)
    IN  /\ (StepDue /\ nbs # {}) =>
              rw_state'.pos \in nbs /\ rw_steps' = rw_steps + 1
        /\ (StepDue /\ nbs = {}) =>
              rw_state'.pos = rw_state.pos /\ rw_steps' = rw_steps
        /\ ~StepDue =>
              rw_state'.pos = rw_state.pos /\ rw_steps' = rw_steps
        /\ Passable(rw_state'.pos, maze')

\* C5: a walker step moves to an in-bounds passable 4-directional neighbor
\* when there is one and changes neither the cell nor the step counter when
\* there is none; the walker stays on in-bounds passable cells.
C5_WalkerStepsAreLegal == [][C5_Step]_vars

C5_Witness ==
    /\ rw_steps >= 2
    /\ rw_state.pos # start
    /\ ~AllPassable(maze)
    /\ Cardinality(OpenNeighbors(rw_state.pos, maze)) >= 2

----------------------------------------------------------------------------
(* C9 *)

\* the playback loop is done with the layer that contains goal
GoalLayerHandled ==
    /\ pc \in {"stopped", "outro"}
    /\ layer_index < Len(bfs.layers)
    /\ goal \in Range(bfs.layers[layer_index + 1])

C9_Step ==
    /\ (rw_state'.pos # rw_state.pos \/ rw_steps' # rw_steps) =>
          random_running = 1 /\ ~GoalLayerHandled
    /\ GoalLayerHandled' => random_running' = 0
    /\ random_running = 0 =>
          /\ random_running' = 0
          /\ rw_state'.pos = rw_state.pos
          /\ rw_steps' = rw_steps
    /\ random_running' = 0 => GoalLayerHandled'

\* C9: the walker moves only while the playback loop has not finished the
\* layer containing goal; from then on the running flag is 0 for good and
\* the walker's cell and step counter are frozen; when no played layer
\* contains goal the flag stays 1.
C9_WalkerStopsAtGoal == [][C9_Step]_vars

C9_Witness ==
    /\ pc = "outro"
    /\ random_running = 0
    /\ rw_steps >= 1
    /\ rw_state.pos # start

====
